---- MODULE Spec2Model ----
(***************************************************************************)
(* Model of the request orchestrator of src/App.tsx (component App): the   *)
(* eight useState cells, the handlers handleGenerateClick and handleReset, *)
(* the inline setters of the inputs and of the "Try Again" button, and the *)
(* continuation of handleGenerateClick after `await generate(...)`.        *)
(*                                                                         *)
(* A JavaScript string that the code computes on (prompt, style label) is  *)
(* a sequence of one-character strings, so that toLowerCase and the        *)
(* template literal are computed and not assumed.  Opaque strings (URLs,   *)
(* error messages, files, aspect ratios) are TLA+ strings.  Every step of  *)
(* the model is one task of the browser's event loop: React applies the    *)
(* state updates a handler queued before the next event is dispatched.     *)
(*                                                                         *)
(* Two specifications share the handlers.  In Spec the orchestrator's      *)
(* events (submit, retry, reset, clearError) are accepted in every state,  *)
(* so that the handlers' own guards decide; in UISpec each event is        *)
(* enabled only when the element that fires it is rendered and enabled.    *)
(***************************************************************************)
EXTENDS Integers, Sequences, FiniteSets, TLC

\* Bound on the number of calls of generate() in one behaviour.
MaxCalls == 3

----------------------------------------------------------------------------
\* JavaScript values

Null == "null"
Undefined == "undefined"

Truthy(v) == v # Null /\ v # Undefined /\ v # ""

UpperCase == <<"A","B","C","D","E","F","G","H","I","J","K","L","M",
               "N","O","P","Q","R","S","T","U","V","W","X","Y","Z">>
LowerCase == <<"a","b","c","d","e","f","g","h","i","j","k","l","m",
               "n","o","p","q","r","s","t","u","v","w","x","y","z">>

ToLowerCaseChar(c) ==
    IF \E i \in DOMAIN UpperCase : UpperCase[i] = c
    THEN LowerCase[CHOOSE i \in DOMAIN UpperCase : UpperCase[i] = c]
    ELSE c

ToLowerCase_Identity(s) == s

ToLowerCase(s) == [i \in DOMAIN s |-> ToLowerCaseChar(s[i])]

----------------------------------------------------------------------------
\* Program constants

styles == { <<"F","a","i","r","y"," ","T","a","l","e">>,
            <<"C","y","b","e","r","p","u","n","k">>,
            <<"F","a","n","t","a","s","y">>,
            <<"A","n","i","m","a","t","i","o","n">>,
            <<"R","e","t","r","o">>,
            <<"S","t","e","a","m","p","u","n","k">> }

InitialStyle == <<"F","a","i","r","y"," ","T","a","l","e">>

AspectRatio == {"1:1", "3:4", "4:3", "9:16", "16:9"}
ASPECT_RATIOS == {"3:4", "9:16"}
InitialAspectRatio_Square == "1:1"

InitialAspectRatio == "3:4"

\* the ratios the AspectRatioSelector offers, each passed to onSelect
SelectableRatios == ASPECT_RATIOS

ValidationMessage == "Please write a prompt or upload an image."
UnknownErrorMessage == "An unknown error occurred."

----------------------------------------------------------------------------
\* Inputs of the environment: what the user types and uploads, what the
\* Generation Client returns or throws.

Prompts == { <<>>, <<"A"," ","c","a","t">>, <<"Z","o","o">> }
Files == {"cat.png"}
ImageUrls == {"data:1", "data:2"}
ErrorMessages == {"quota exceeded"}

----------------------------------------------------------------------------
VARIABLES
    prompt, uploadedImage, selectedStyle, selectedAspectRatio,
    isLoading, generatedImageUrl, error, isTextOnlyResult,
    pending,      \* calls of generate() not yet settled, oldest first
    clientCalls,  \* number of calls of generate() so far
    producedBy,   \* history: <<request>> that produced generatedImageUrl
    lastEvent     \* history: the event that led to the current state

vars == <<prompt, uploadedImage, selectedStyle, selectedAspectRatio,
          isLoading, generatedImageUrl, error, isTextOnlyResult,
          pending, clientCalls, producedBy, lastEvent>>

inputs == <<prompt, uploadedImage, selectedStyle>>

\* renderContent: which of the four views is shown.
UIState ==
    IF isLoading THEN "Loading"
    ELSE IF Truthy(error) THEN "Failed"
    ELSE IF Truthy(generatedImageUrl) THEN "Success"
    ELSE "Idle"

Event(op, arg, outcome) ==
    [op |-> op, arg |-> arg, outcome |-> outcome, from |-> UIState]

Init ==
    /\ prompt = <<>>
    /\ uploadedImage = Null
    /\ selectedStyle = InitialStyle
    /\ selectedAspectRatio = InitialAspectRatio
    /\ isLoading = FALSE
    /\ generatedImageUrl = Null
    /\ error = Null
    /\ isTextOnlyResult = TRUE
    /\ pending = <<>>
    /\ clientCalls = 0
    /\ producedBy = <<>>
    /\ lastEvent = [op |-> "init", arg |-> Undefined, outcome |-> "done",
                    from |-> "Idle"]

----------------------------------------------------------------------------
\* handleGenerateClick, up to the await

StylePrefix == <<",", " ", "i", "n", " ", "a", " ">>
StyleSuffix == <<" ", "s", "t", "y", "l", "e", ".">>

FinalPrompt(p, style) == p \o StylePrefix \o ToLowerCase(style) \o StyleSuffix

CurrentAspectRatio_IgnoresNew(newAspectRatio) == selectedAspectRatio

CurrentAspectRatio(newAspectRatio) ==
    IF Truthy(newAspectRatio) THEN newAspectRatio ELSE selectedAspectRatio

TextOnly_FirstValue(image) == TRUE

\* the argument of setIsTextOnlyResult
TextOnly(image) == ~Truthy(image)

\* the first early return: nothing to generate from
RejectEmpty(newAspectRatio) ==
    /\ error' = ValidationMessage
    /\ lastEvent' = Event("submit", newAspectRatio, "rejected")
    /\ UNCHANGED <<inputs, selectedAspectRatio, isLoading, generatedImageUrl,
                   isTextOnlyResult, pending, clientCalls, producedBy>>

DropDuplicate_ShowsError(newAspectRatio) ==
    /\ error' = ValidationMessage
    /\ lastEvent' = Event("submit", newAspectRatio, "dropped")
    /\ UNCHANGED <<inputs, selectedAspectRatio, isLoading, generatedImageUrl,
                   isTextOnlyResult, pending, clientCalls, producedBy>>

\* the second early return: a request is in flight
DropDuplicate(newAspectRatio) ==
    /\ lastEvent' = Event("submit", newAspectRatio, "dropped")
    /\ UNCHANGED <<inputs, selectedAspectRatio, isLoading, generatedImageUrl,
                   error, isTextOnlyResult, pending, clientCalls, producedBy>>

\* the rest of the handler up to the call of generate(); the fields prompt
\* and style of the call record are history, generate() receives the others
StartRequest(newAspectRatio) ==
    /\ isLoading' = TRUE
    /\ error' = Null
    /\ generatedImageUrl' = Null
    /\ selectedAspectRatio' = CurrentAspectRatio(newAspectRatio)
    /\ isTextOnlyResult' = TextOnly(uploadedImage)
    /\ pending' = Append(pending,
            [finalPrompt |-> FinalPrompt(prompt, selectedStyle),
             aspectRatio |-> CurrentAspectRatio(newAspectRatio),
             image |-> uploadedImage,
             prompt |-> prompt,
             style |-> selectedStyle])
    /\ clientCalls' = clientCalls + 1
    /\ producedBy' = <<>>
    /\ lastEvent' = Event("submit", newAspectRatio, "accepted")
    /\ UNCHANGED inputs

HandleGenerateClick_NoValidation(newAspectRatio) ==
    IF isLoading
    THEN DropDuplicate(newAspectRatio)
    ELSE StartRequest(newAspectRatio)

HandleGenerateClick_NoLoadingGuard(newAspectRatio) ==
    IF prompt = <<>> /\ ~Truthy(uploadedImage)
    THEN RejectEmpty(newAspectRatio)
    ELSE StartRequest(newAspectRatio)

HandleGenerateClick(newAspectRatio) ==
    IF prompt = <<>> /\ ~Truthy(uploadedImage)
    THEN RejectEmpty(newAspectRatio)
    ELSE IF isLoading
    THEN DropDuplicate(newAspectRatio)
    ELSE StartRequest(newAspectRatio)

Without(seq, i) == SubSeq(seq, 1, i - 1) \o SubSeq(seq, i + 1, Len(seq))

ClientResolves_StillLoading ==
    \E i \in DOMAIN pending, imageUrl \in ImageUrls :
        /\ generatedImageUrl' = imageUrl
        /\ pending' = Without(pending, i)
        /\ producedBy' = <<pending[i]>>
        /\ lastEvent' = Event("resolve", imageUrl, "done")
        /\ UNCHANGED <<inputs, selectedAspectRatio, isLoading, error,
                       isTextOnlyResult, clientCalls>>

\* handleGenerateClick after the await: the try branch and finally
ClientResolves ==
    \E i \in DOMAIN pending, imageUrl \in ImageUrls :
        /\ generatedImageUrl' = imageUrl
        /\ isLoading' = FALSE
        /\ pending' = Without(pending, i)
        /\ producedBy' = <<pending[i]>>
        /\ lastEvent' = Event("resolve", imageUrl, "done")
        /\ UNCHANGED <<inputs, selectedAspectRatio, error, isTextOnlyResult,
                       clientCalls>>

\* What generate() can throw: an Error with a message, or any other value.
Thrown == [isError : {TRUE}, message : ErrorMessages]
            \cup {[isError |-> FALSE, message |-> Undefined]}

ErrorText_AlwaysUnknown(err) == UnknownErrorMessage

\* err instanceof Error ? err.message : 'An unknown error occurred.'
ErrorText(err) == IF err.isError THEN err.message ELSE UnknownErrorMessage

ClientRejects_Retries ==
    \E i \in DOMAIN pending, err \in Thrown :
        /\ pending' = Append(Without(pending, i), pending[i])
        /\ clientCalls' = clientCalls + 1
        /\ lastEvent' = Event("reject", err.message, "done")
        /\ UNCHANGED <<inputs, selectedAspectRatio, isLoading,
                       generatedImageUrl, error, isTextOnlyResult,
                       producedBy>>

\* handleGenerateClick after the await: the catch branch and finally
ClientRejects ==
    \E i \in DOMAIN pending, err \in Thrown :
        /\ error' = ErrorText(err)
        /\ generatedImageUrl' = Null
        /\ isLoading' = FALSE
        /\ pending' = Without(pending, i)
        /\ producedBy' = <<>>
        /\ lastEvent' = Event("reject", err.message, "done")
        /\ UNCHANGED <<inputs, selectedAspectRatio, isTextOnlyResult,
                       clientCalls>>

HandleReset_ClearsPrompt ==
    /\ generatedImageUrl' = Null
    /\ error' = Null
    /\ prompt' = <<>>
    /\ producedBy' = <<>>
    /\ lastEvent' = Event("reset", Undefined, "done")
    /\ UNCHANGED <<uploadedImage, selectedStyle, selectedAspectRatio,
                   isLoading, isTextOnlyResult, pending, clientCalls>>

HandleReset_StopsLoading ==
    /\ generatedImageUrl' = Null
    /\ error' = Null
    /\ isLoading' = FALSE
    /\ producedBy' = <<>>
    /\ lastEvent' = Event("reset", Undefined, "done")
    /\ UNCHANGED <<inputs, selectedAspectRatio, isTextOnlyResult,
                   pending, clientCalls>>

HandleReset ==
    /\ generatedImageUrl' = Null
    /\ error' = Null
    /\ producedBy' = <<>>
    /\ lastEvent' = Event("reset", Undefined, "done")
    /\ UNCHANGED <<inputs, selectedAspectRatio, isLoading, isTextOnlyResult,
                   pending, clientCalls>>

\* onClick of the "Try Again" button
ClearError ==
    /\ error' = Null
    /\ lastEvent' = Event("clearError", Undefined, "done")
    /\ UNCHANGED <<inputs, selectedAspectRatio, isLoading, generatedImageUrl,
                   isTextOnlyResult, pending, clientCalls, producedBy>>

----------------------------------------------------------------------------
\* The inputs: textarea, ImageUploader, ConceptSelector (disabled while
\* isLoading)

\* ImageUploader and ConceptSelector take no input while their isDisabled
\* prop, which App sets to isLoading, is true
ImageUploaderDisabled == isLoading
ConceptSelectorDisabled == isLoading

SetPrompt_AlwaysEnabled ==
    /\ \E p \in Prompts :
        /\ prompt' = p
        /\ lastEvent' = Event("setPrompt", Undefined, "done")
    /\ UNCHANGED <<uploadedImage, selectedStyle, selectedAspectRatio,
                   isLoading, generatedImageUrl, error, isTextOnlyResult,
                   pending, clientCalls, producedBy>>

SetPrompt ==
    /\ ~isLoading
    /\ \E p \in Prompts :
        /\ prompt' = p
        /\ lastEvent' = Event("setPrompt", Undefined, "done")
    /\ UNCHANGED <<uploadedImage, selectedStyle, selectedAspectRatio,
                   isLoading, generatedImageUrl, error, isTextOnlyResult,
                   pending, clientCalls, producedBy>>

SetUploadedImage ==
    /\ ~ImageUploaderDisabled
    /\ \E f \in Files \cup {Null} :
        /\ uploadedImage' = f
        /\ lastEvent' = Event("setUploadedImage", Undefined, "done")
    /\ UNCHANGED <<prompt, selectedStyle, selectedAspectRatio,
                   isLoading, generatedImageUrl, error, isTextOnlyResult,
                   pending, clientCalls, producedBy>>

SetSelectedStyle ==
    /\ ~ConceptSelectorDisabled
    /\ \E s \in styles :
        /\ selectedStyle' = s
        /\ lastEvent' = Event("setSelectedStyle", Undefined, "done")
    /\ UNCHANGED <<prompt, uploadedImage, selectedAspectRatio,
                   isLoading, generatedImageUrl, error, isTextOnlyResult,
                   pending, clientCalls, producedBy>>

----------------------------------------------------------------------------
\* Spec: the orchestrator's events, accepted in every state

Submit == clientCalls < MaxCalls /\ HandleGenerateClick(Undefined)

RetryWithAspectRatio ==
    /\ clientCalls < MaxCalls
    /\ \E ratio \in SelectableRatios : HandleGenerateClick(ratio)

Reset == HandleReset

Next ==
    \/ Submit
    \/ RetryWithAspectRatio
    \/ Reset
    \/ ClearError
    \/ SetPrompt
    \/ SetUploadedImage
    \/ SetSelectedStyle
    \/ ClientResolves
    \/ ClientRejects

Spec == Init /\ [][Next]_vars

----------------------------------------------------------------------------
\* UISpec: the same handlers, each reachable only through the element that
\* fires it when that element is rendered and enabled

\* the Generate button: disabled={isLoading || (!prompt && !uploadedImage)}
GenerateEnabled == ~(isLoading \/ (prompt = <<>> /\ ~Truthy(uploadedImage)))

\* renderContent shows the AspectRatioSelector card
RetryShown == UIState = "Success" /\ isTextOnlyResult

\* renderContent shows the "Create New" button
CreateNewShown == UIState = "Success"

\* renderContent shows the "Try Again" button
TryAgainShown == UIState = "Failed"

ClickGenerate ==
    /\ GenerateEnabled
    /\ clientCalls < MaxCalls
    /\ HandleGenerateClick(Undefined)

SelectAspectRatio ==
    /\ RetryShown
    /\ clientCalls < MaxCalls
    /\ \E ratio \in SelectableRatios : HandleGenerateClick(ratio)

ClickCreateNew == CreateNewShown /\ HandleReset

ClickTryAgain == TryAgainShown /\ ClearError

UINext ==
    \/ ClickGenerate
    \/ SelectAspectRatio
    \/ ClickCreateNew
    \/ ClickTryAgain
    \/ SetPrompt
    \/ SetUploadedImage
    \/ SetSelectedStyle
    \/ ClientResolves
    \/ ClientRejects

UISpec == Init /\ [][UINext]_vars

\* LiveSpec: Spec, assuming every call of generate() eventually settles
ClientSettles == ClientResolves \/ ClientRejects

LiveSpec == Spec /\ WF_vars(ClientSettles)

----------------------------------------------------------------------------
\* Properties

LastCall(calls) == calls[Len(calls)]

IsSubmit(e) == e.op = "submit"
IsRetry(e) == e.op = "submit" /\ e.arg # Undefined

\* The style labels in lower case, written out letter by letter.
LowerLabel(style) ==
    CASE style = <<"F","a","i","r","y"," ","T","a","l","e">>
            -> <<"f","a","i","r","y"," ","t","a","l","e">>
      [] style = <<"C","y","b","e","r","p","u","n","k">>
            -> <<"c","y","b","e","r","p","u","n","k">>
      [] style = <<"F","a","n","t","a","s","y">>
            -> <<"f","a","n","t","a","s","y">>
      [] style = <<"A","n","i","m","a","t","i","o","n">>
            -> <<"a","n","i","m","a","t","i","o","n">>
      [] style = <<"R","e","t","r","o">>
            -> <<"r","e","t","r","o">>
      [] style = <<"S","t","e","a","m","p","u","n","k">>
            -> <<"s","t","e","a","m","p","u","n","k">>

ExpectedPrompt(p, style) ==
    p \o <<",", " ", "i", "n", " ", "a", " ">> \o LowerLabel(style)
      \o <<" ", "s", "t", "y", "l", "e", ".">>

\* C1: a submit (plain or aspect-ratio retry) made while the prompt is empty
\* and no image is uploaded is rejected with the validation message and
\* does not call the Generation Client.
C1_EmptySubmitRejected ==
    [][(IsSubmit(lastEvent') /\ prompt = <<>> /\ uploadedImage = Null)
        => /\ error' = ValidationMessage
           /\ lastEvent'.outcome = "rejected"
           /\ clientCalls' = clientCalls
           /\ pending' = pending]_vars

C1_Witness ==
    /\ IsRetry(lastEvent)
    /\ lastEvent.from = "Success"
    /\ lastEvent.outcome = "rejected"
    /\ prompt = <<>>
    /\ uploadedImage = Null
    /\ error = ValidationMessage
    /\ pending = <<>>
    /\ clientCalls = 1

\* C2: at most one call of the Generation Client is outstanding at any
\* time, under every interleaving of the events and the Client's answers.
C2_AtMostOneOutstanding == Len(pending) <= 1

C2_Witness ==
    /\ IsSubmit(lastEvent)
    /\ lastEvent.from = "Loading"
    /\ lastEvent.outcome = "dropped"
    /\ Len(pending) = 1

\* C3: an accepted submit with a non-empty prompt passes to the Client the
\* prompt followed by ", in a <style in lower case> style." and the image
\* that is uploaded at that moment (or null).
C3_FinalPromptAndImage ==
    [][(IsSubmit(lastEvent') /\ lastEvent'.outcome = "accepted"
            /\ prompt # <<>>)
        => /\ Len(pending') = Len(pending) + 1
           /\ LastCall(pending').finalPrompt
                = ExpectedPrompt(prompt, selectedStyle)
           /\ LastCall(pending').image = uploadedImage]_vars

C3_Witness ==
    /\ IsSubmit(lastEvent)
    /\ lastEvent.outcome = "accepted"
    /\ Len(pending) = 1
    /\ pending[1].image = Null
    /\ pending[1].aspectRatio = "3:4"
    /\ pending[1].finalPrompt =
          <<"A"," ","c","a","t",","," ","i","n"," ","a"," ",
            "f","a","i","r","y"," ","t","a","l","e",
            " ","s","t","y","l","e",".">>

\* C4: when the pending call resolves with reference r, the state becomes
\* Success holding r: generatedImageUrl = r, error = null, isLoading false.
C4_SuccessHoldsReference ==
    [][lastEvent'.op = "resolve"
        => /\ generatedImageUrl' = lastEvent'.arg
           /\ error' = Null
           /\ isLoading' = FALSE
           /\ UIState' = "Success"]_vars

C4_Witness ==
    /\ lastEvent.op = "resolve"
    /\ lastEvent.from = "Loading"
    /\ generatedImageUrl = lastEvent.arg
    /\ UIState = "Success"

\* C5: when the pending call fails with an Error of message m, the state
\* becomes Failed holding m: error = m, no result, isLoading false.
C5_FailureHoldsMessage ==
    [][(lastEvent'.op = "reject" /\ lastEvent'.arg \in ErrorMessages)
        => /\ error' = lastEvent'.arg
           /\ generatedImageUrl' = Null
           /\ isLoading' = FALSE
           /\ UIState' = "Failed"]_vars

C5_Witness ==
    /\ lastEvent.op = "reject"
    /\ lastEvent.from = "Loading"
    /\ lastEvent.arg \in ErrorMessages
    /\ error = lastEvent.arg
    /\ UIState = "Failed"

\* C6: reset from a Success or a Failed state sets the result and the error
\* to null, which is the Idle state, and leaves the prompt, the uploaded
\* image, the selected style and the selected aspect ratio as they were.
C6_ResetClearsAndKeepsInputs ==
    [][(lastEvent'.op = "reset" /\ UIState \in {"Success", "Failed"})
        => /\ generatedImageUrl' = Null
           /\ error' = Null
           /\ UIState' = "Idle"
           /\ prompt' = prompt
           /\ uploadedImage' = uploadedImage
           /\ selectedStyle' = selectedStyle
           /\ selectedAspectRatio' = selectedAspectRatio]_vars

C6_Witness ==
    /\ lastEvent.op = "reset"
    /\ lastEvent.from \in {"Success", "Failed"}
    /\ UIState = "Idle"
    /\ prompt # <<>>
    /\ uploadedImage # Null

\* C7: at most one of isLoading, a non-null result and a non-null error
\* holds in any reachable state; an error and a result are never held
\* together.
C7_OneUIStateAtATime ==
    /\ ~(isLoading /\ generatedImageUrl # Null)
    /\ ~(isLoading /\ error # Null)
    /\ ~(generatedImageUrl # Null /\ error # Null)

\* C8: the aspect-ratio retry is offered only in a Success state whose
\* result came from a request without an image; whenever a result is held,
\* isTextOnlyResult is true exactly if the request that produced it carried
\* no image.
C8_TextOnlyMatchesProducer ==
    /\ generatedImageUrl # Null
        => /\ Len(producedBy) = 1
           /\ isTextOnlyResult <=> (producedBy[1].image = Null)
    /\ RetryShown
        => /\ UIState = "Success"
           /\ Len(producedBy) = 1
           /\ producedBy[1].image = Null

C8_Witness ==
    /\ lastEvent.op = "resolve"
    /\ RetryShown
    /\ isTextOnlyResult
    /\ producedBy[1].image = Null

\* C9, as stated: an accepted aspect-ratio retry calls the Client with the
\* new ratio and with the prompt, style and image of the request that
\* produced the displayed result, and selects the new ratio.
C9_RetryRepeatsProducer ==
    [][(IsRetry(lastEvent') /\ lastEvent'.outcome = "accepted"
            /\ Len(producedBy) = 1)
        => /\ LastCall(pending').aspectRatio = lastEvent'.arg
           /\ selectedAspectRatio' = lastEvent'.arg
           /\ LastCall(pending').prompt = producedBy[1].prompt
           /\ LastCall(pending').style = producedBy[1].style
           /\ LastCall(pending').finalPrompt = producedBy[1].finalPrompt
           /\ LastCall(pending').image = producedBy[1].image]_vars

\* C9, amended: an accepted aspect-ratio retry calls the Client with the
\* new ratio and with the prompt, style and image held in the state when
\* the retry is made, and selects the new ratio.
C9_RetryUsesHeldInputs ==
    [][(IsRetry(lastEvent') /\ lastEvent'.outcome = "accepted")
        => /\ LastCall(pending').aspectRatio = lastEvent'.arg
           /\ selectedAspectRatio' = lastEvent'.arg
           /\ LastCall(pending').finalPrompt
                = ExpectedPrompt(prompt, selectedStyle)
           /\ LastCall(pending').image = uploadedImage]_vars

C9_Witness ==
    /\ IsRetry(lastEvent)
    /\ lastEvent.outcome = "accepted"
    /\ lastEvent.from = "Success"
    /\ lastEvent.arg = "9:16"
    /\ selectedAspectRatio = "9:16"
    /\ Len(pending) = 1
    /\ pending[1].aspectRatio = "9:16"

\* C10: no user event (submit, retry, reset, clearError) takes the state
\* out of Loading, and if the Client's call settles, every Loading state is
\* followed by a Success or a Failed state with isLoading false.
C10_RunsToCompletion ==
    /\ [][(isLoading /\ lastEvent'.op \in {"submit", "reset", "clearError"})
            => (isLoading' /\ pending' = pending)]_vars
    /\ isLoading ~> (~isLoading /\ UIState \in {"Success", "Failed"})

C10_Witness ==
    /\ isLoading
    /\ lastEvent.from = "Loading"
    /\ lastEvent.op = "reset"
    /\ Len(pending) = 1

\* C11: every aspect ratio passed to the Client and every value of the
\* selected aspect ratio is "3:4" or "9:16"; "1:1", "4:3" and "16:9" are
\* never sent.
C11_OnlySurfacedRatios ==
    /\ selectedAspectRatio \in {"3:4", "9:16"}
    /\ \A i \in DOMAIN pending :
        /\ pending[i].aspectRatio \in {"3:4", "9:16"}
        /\ pending[i].aspectRatio \notin {"1:1", "4:3", "16:9"}

C11_Witness ==
    /\ IsRetry(lastEvent)
    /\ lastEvent.outcome = "accepted"
    /\ lastEvent.arg = "9:16"
    /\ Len(pending) = 1
    /\ pending[1].aspectRatio = "9:16"
    /\ selectedAspectRatio = "9:16"
    /\ clientCalls = 2

C13_OneCallPerAcceptedSubmit ==
    [][IF /\ IsSubmit(lastEvent')
          /\ ~isLoading
          /\ ~(prompt = <<>> /\ uploadedImage = Null)
       THEN /\ clientCalls' = clientCalls + 1
            /\ Len(pending') = Len(pending) + 1
       ELSE /\ clientCalls' = clientCalls
            /\ Len(pending') <= Len(pending)]_vars

C13_Witness ==
    /\ lastEvent.op = "clearError"
    /\ lastEvent.from = "Failed"
    /\ generatedImageUrl = Null
    /\ clientCalls = 1
    /\ pending = <<>>
    /\ prompt # <<>>

\* C14: clearError, taken while an error is displayed, sets error to null
\* and leaves the Idle state, changing nothing else.
C14_ClearErrorGivesIdle ==
    [][(lastEvent'.op = "clearError" /\ UIState = "Failed")
        => /\ error' = Null
           /\ UIState' = "Idle"
           /\ UNCHANGED <<prompt, uploadedImage, selectedStyle,
                          selectedAspectRatio, isLoading, generatedImageUrl,
                          isTextOnlyResult, pending, clientCalls>>]_vars

====
